---- MODULE Spec2Model ----
(***************************************************************************)
(* State machine of one WebTransport session, ext/webtransport/            *)
(* 01_webtransport.js: the three Deferreds (ready, closed, closeSent), the *)
(* earlyClose flag, the op_wt_create handlers with the early-close drain   *)
(* loop, the writable side's write/close/abort handlers, the readable      *)
(* side's start/pull/cancel handlers and the close-timeout policy of pull. *)
(*                                                                         *)
(* The Transport Handle (the ops) is the environment: it answers create    *)
(* and close with success or failure, and produces a bounded sequence of   *)
(* events which outstanding next-event requests take in FIFO order.  One   *)
(* action is one run of a handler between two suspension points (an        *)
(* awaited op, a timer, a promise reaction).                               *)
(*                                                                         *)
(* class WebTransport (lines 52-444) defines no close method, so the calls *)
(* this.close(...) at lines 198/200, 206/208 and 287/289 throw a TypeError *)
(* twice and the handler's promise rejects there.                          *)
(***************************************************************************)
EXTENDS Integers, Sequences, FiniteSets, TLC

\* ------------------------------------------------------------------ bounds
\* Number of events the transport produces in one session.
MaxEvents == 3
\* Number of times the clock advances, by 1 ms or by the close timeout.
MaxTicks == 2

\* ------------------------------------------------------- program constants
CLOSE_RESPONSE_TIMEOUT == 5000

VARIABLES
    ready,          \* this[_ready]: [state, value]
    closed,         \* this[_closed]: [state, value]
    closeSent,      \* this[_closeSent]: [state, value], value a timestamp
    earlyClose,     \* this[_earlyClose]
    rid,            \* this[_rid]: "undefined" or "rid"
    create,         \* the op_wt_create promise: "pending", "fulfilled", "rejected"
    handle,         \* the transport resource: "none", "live", "released"
    closeOp,        \* the op_wt_close promise of writable.close
    early,          \* position in the early-close branch of the create handler
    pump,           \* the two invocations of pull: by the stream, by closeSent
    produced,       \* events the transport has produced, in order
    taken,          \* number of them taken by next-event requests
    delivered,      \* chunks enqueued to the readable controller, in order
    rstate,         \* readable stream: "readable", "closed", "errored"
    wstate,         \* writable stream: "writable", "errored"
    now,            \* new Date().getTime()
    releaseCalls,   \* number of core.tryClose calls
    closeOps,       \* number of close ops issued (op_wt_close, op_ws_close)
    closedReacted,  \* the reaction to this.closed of readable.start has run
    fallback,       \* history: the close-timeout policy's forced resolution
    closedBy,       \* history: what settled closed
    log,            \* history: the events whose enqueue threw
    sendOp,         \* the op_wt_send promise of writable.write
    opLog,          \* history: ops issued on this[_rid], by the handle's state
    rerr            \* the stored error of the readable stream

vars == <<ready, closed, closeSent, earlyClose, rid, create, handle, closeOp,
          early, pump, produced, taken, delivered, rstate, wstate, now,
          releaseCalls, closeOps, closedReacted, fallback, closedBy, log,
          sendOp, opLog, rerr>>

\* ------------------------------------------------------------------ values
Val(t, v) == [t |-> t, v |-> v]
Undefined == Val("undefined", "")

\* The datagrams the peer sends, in the order it sends them: all different, so
\* that a lost, repeated or displaced one shows.
Payloads == <<"A", "B", "C", "D", "E", "F">>

\* The tagged events of op_wt_next_event, {kind, value}; i is the event's
\* place in the transport's sequence.
Kinds == {"binary", "close", "closed", "error"}
Event(kind, i) ==
    [kind |-> kind,
     value |-> CASE kind = "binary" -> Val("bytes", Payloads[i])
                 [] kind = "close" -> Val("CloseInfo", "close")
                 [] kind = "closed" -> Val("CloseInfo", "closed")
                 [] kind = "error" -> Val("string", "boom")]

\* new DOMException("Closed while connecting", "NetworkError"), one object per
\* handler that constructs it.
ClosedWhileConnecting(site) == Val("DOMException", site)

\* The close info a close request carries: {code, reason}.
CloseInfos == [code : {1000, 1001}, reasonLen : {123, 124}]
ValidCloseInfo(info) == info.code <= 1000 /\ info.reasonLen <= 123

\* ---------------------------------------------------------------- Deferred
NewDeferred(v) == [state |-> "pending", value |-> v]

ResolveAlways(d, v) == [state |-> "fulfilled", value |-> v]
Resolve(d, v) ==
    IF d.state = "pending" THEN [state |-> "fulfilled", value |-> v] ELSE d

Reject(d, v) ==
    IF d.state = "pending" THEN [state |-> "rejected", value |-> v] ELSE d

\* core.tryClose(rid)
TryClose ==
    /\ handle' = "released"
    /\ releaseCalls' = releaseCalls + 1

\* -------------------------------------------------------------------- pump
PumpIds == {"stream", "trigger"}

PumpAt(pc) == [pc |-> pc, elapsed |-> 0, value |-> Undefined]

\* pull has returned: the stream may invoke its pull again, the closeSent
\* trigger runs once.
Returned(p) == IF p = "stream" THEN PumpAt("idle") ELSE PumpAt("done")

\* pull up to its first suspension point.
PullEnter(p) ==
    IF ready.state = "pending" THEN Returned(p)
    ELSE IF rid = "undefined" THEN PumpAt("failed")
    ELSE PumpAt("waiting")

\* An op is issued with this[_rid] as its resource id: the history records
\* whether the field was unset, or named a resource already released.
OpIssued(l) ==
    [l EXCEPT !.absent = @ \/ rid = "undefined",
              !.released = @ \/ (rid # "undefined" /\ handle = "released")]

\* pull issues op_wt_next_event unless ready is pending.
PullIssued(l) == IF ready.state = "pending" THEN l ELSE OpIssued(l)

\* What the application writes: a Uint8Array, or anything else.
Chunks == {"Uint8Array", "other"}

\* The error of an op issued with a resource id that is undefined.
BadResource == Val("TypeError", "bad resource id")

\* The close-timeout policy's test, after the switch; c is this[_closed] then.
ClosePolicy(p, value, c) ==
    IF closeSent.state = "fulfilled" /\ c.state = "pending"
    THEN [pc |-> "await", elapsed |-> now - closeSent.value, value |-> value]
    ELSE Returned(p)

Init ==
    /\ ready = NewDeferred(Undefined)
    /\ closed = NewDeferred(Undefined)
    /\ closeSent = NewDeferred(0)
    /\ earlyClose = FALSE
    /\ rid = "undefined"
    /\ create = "pending"
    /\ handle = "none"
    /\ closeOp = "none"
    /\ early = "none"
    /\ pump = [p \in PumpIds |-> IF p = "stream" THEN PumpAt("idle")
                                                  ELSE PumpAt("unstarted")]
    /\ produced = <<>>
    /\ taken = 0
    /\ delivered = <<>>
    /\ rstate = "readable"
    /\ wstate = "writable"
    /\ now = 0
    /\ releaseCalls = 0
    /\ closeOps = 0
    /\ closedReacted = FALSE
    /\ fallback = [fired |-> FALSE, elapsed |-> 0, value |-> Undefined]
    /\ closedBy = [kind |-> "none", i |-> 0, n |-> 0]
    /\ log = [dropped |-> {}, open |-> FALSE]
    /\ sendOp = "none"
    /\ opLog = [absent |-> FALSE, released |-> FALSE, late |-> FALSE]
    /\ rerr = Undefined

\* closed := c, recording what settled it when this call did.
SetClosed(c, kind, i) ==
    /\ closed' = c
    /\ closedBy' = IF closed.state = "pending" /\ c.state # "pending"
                   THEN [kind |-> kind, i |-> i, n |-> Len(delivered)]
                   ELSE closedBy

\* -------------------------------------------------- handshake (op_wt_create)
\* Fulfilment handler of op_wt_create, mutated: the earlyClose flag is ignored.
CreateFulfilledNoEarly ==
    /\ create = "pending"
    /\ create' = "fulfilled"
    /\ handle' = "live"
    /\ rid' = "rid"
    /\ ready' = Resolve(ready, Undefined)
    /\ UNCHANGED <<closed, closeSent, earlyClose, closeOp, early, pump, produced,
                   taken, delivered, rstate, wstate, now, releaseCalls, closeOps,
                   closedReacted, fallback, closedBy, log,
                   sendOp, opLog, rerr>>

\* Fulfilment handler of op_wt_create: with earlyClose set it issues
\* op_ws_close on create.rid and keeps this[_rid] unset; otherwise it stores
\* the rid and resolves ready.
CreateFulfilled ==
    /\ create = "pending"
    /\ create' = "fulfilled"
    /\ handle' = "live"
    /\ IF earlyClose
       THEN /\ early' = "closing"
            /\ closeOps' = closeOps + 1
            /\ UNCHANGED <<rid, ready>>
       ELSE /\ rid' = "rid"
            /\ ready' = Resolve(ready, Undefined)
            /\ UNCHANGED <<early, closeOps>>
    /\ UNCHANGED <<closed, closeSent, earlyClose, closeOp, pump, produced,
                   taken, delivered, rstate, wstate, now, releaseCalls,
                   closedReacted, fallback, closedBy, log,
                   sendOp, opLog, rerr>>

\* Rejection handler of op_wt_create, mutated: closed is left alone.
CreateRejectedReadyOnly ==
    /\ create = "pending"
    /\ create' = "rejected"
    /\ ready' = Reject(ready, ClosedWhileConnecting("create"))
    /\ UNCHANGED <<closed, closeSent, earlyClose, rid, handle, closeOp, early, pump,
                   produced, taken, delivered, rstate, wstate, now, releaseCalls,
                   closeOps, closedReacted, fallback, closedBy, log,
                   sendOp, opLog, rerr>>

\* Rejection handler of op_wt_create: one error rejects ready and closed.
CreateRejected ==
    /\ create = "pending"
    /\ create' = "rejected"
    /\ LET err == ClosedWhileConnecting("create")
       IN /\ ready' = Reject(ready, err)
          /\ SetClosed(Reject(closed, err), "create", 0)
    /\ UNCHANGED <<closeSent, earlyClose, rid, handle, closeOp, early, pump,
                   produced, taken, delivered, rstate, wstate, now, releaseCalls,
                   closeOps, closedReacted, fallback, log,
                   sendOp, opLog, rerr>>

\* Fulfilment handler of op_ws_close in the early-close branch: the drain
\* loop starts and awaits its first op_ws_next_event.
EarlyCloseFulfilled ==
    /\ early = "closing"
    /\ early' = "draining"
    /\ UNCHANGED <<ready, closed, closeSent, earlyClose, rid, create, handle,
                   closeOp, pump, produced, taken, delivered, rstate, wstate, now,
                   releaseCalls, closeOps, closedReacted, fallback, closedBy, log,
                   sendOp, opLog, rerr>>

\* Rejection handler of op_ws_close in the early-close branch.
EarlyCloseRejected ==
    /\ early = "closing"
    /\ early' = "failed"
    /\ LET err == ClosedWhileConnecting("early-close-failed")
       IN /\ ready' = Reject(ready, err)
          /\ SetClosed(Reject(closed, err), "early", 0)
    /\ UNCHANGED <<closeSent, earlyClose, rid, create, handle, closeOp, pump,
                   produced, taken, delivered, rstate, wstate, now, releaseCalls,
                   closeOps, closedReacted, fallback, log,
                   sendOp, opLog, rerr>>

\* One turn of the drain loop, mutated: a binary event is enqueued to the
\* readable controller.
DrainNextEventEnqueues ==
    /\ early = "draining"
    /\ taken < Len(produced)
    /\ taken' = taken + 1
    /\ delivered' = IF produced[taken + 1].kind = "binary" /\ rstate = "readable"
                    THEN Append(delivered, produced[taken + 1].value.v)
                    ELSE delivered
    /\ IF produced[taken + 1].kind = "close"
       THEN /\ early' = "done"
            /\ LET err == ClosedWhileConnecting("early-drained")
               IN /\ ready' = Reject(ready, err)
                  /\ SetClosed(Reject(closed, err), "early", 0)
       ELSE UNCHANGED <<early, ready, closed, closedBy>>
    /\ UNCHANGED <<closeSent, earlyClose, rid, create, handle, closeOp, pump,
                   produced, rstate, wstate, now, releaseCalls, closeOps,
                   closedReacted, fallback, log, sendOp, opLog, rerr>>

\* One turn of the drain loop: the awaited op_ws_next_event yields the next
\* event; kind "close" ends the loop and the reaction rejects ready and
\* closed; any other kind requests the next event.
DrainNextEvent ==
    /\ early = "draining"
    /\ taken < Len(produced)
    /\ taken' = taken + 1
    /\ IF produced[taken + 1].kind = "close"
       THEN /\ early' = "done"
            /\ LET err == ClosedWhileConnecting("early-drained")
               IN /\ ready' = Reject(ready, err)
                  /\ SetClosed(Reject(closed, err), "early", 0)
       ELSE UNCHANGED <<early, ready, closed, closedBy>>
    /\ UNCHANGED <<closeSent, earlyClose, rid, create, handle, closeOp, pump,
                   produced, delivered, rstate, wstate, now, releaseCalls,
                   closeOps, closedReacted, fallback, log,
                   sendOp, opLog, rerr>>

\* ------------------------------------------------------------ writable side
\* The WritableStream invokes its sink's write with one chunk at a time,
\* while it is writable.  A chunk that is a Uint8Array is handed to
\* op_wt_send on this[_rid], whatever that field holds; any other chunk
\* throws a TypeError, which errors the stream.
WritableWrite(chunk) ==
    /\ wstate = "writable"
    /\ sendOp = "none"
    /\ IF chunk = "Uint8Array"
       THEN /\ sendOp' = "inflight"
            /\ opLog' = OpIssued(opLog)
            /\ UNCHANGED wstate
       ELSE /\ wstate' = "errored"
            /\ UNCHANGED <<sendOp, opLog>>
    /\ UNCHANGED <<ready, closed, closeSent, earlyClose, rid, create, handle,
                   closeOp, early, pump, produced, taken, delivered, rstate, now,
                   releaseCalls, closeOps, closedReacted, fallback, closedBy,
                   log, rerr>>

\* op_wt_send succeeds: the write handler returns.  A send with an undefined
\* resource id cannot succeed.
SendFulfilled ==
    /\ sendOp = "inflight"
    /\ rid # "undefined"
    /\ sendOp' = "none"
    /\ UNCHANGED <<ready, closed, closeSent, earlyClose, rid, create, handle,
                   closeOp, early, pump, produced, taken, delivered, rstate,
                   wstate, now, releaseCalls, closeOps, closedReacted, fallback,
                   closedBy, log, opLog, rerr>>

\* op_wt_send fails: the awaiting write handler rethrows, and the stream is
\* errored with the op's error.  The handler does nothing else.
SendRejected ==
    /\ sendOp = "inflight"
    /\ sendOp' = "failed"
    /\ wstate' = "errored"
    /\ UNCHANGED <<ready, closed, closeSent, earlyClose, rid, create, handle,
                   closeOp, early, pump, produced, taken, delivered, rstate, now,
                   releaseCalls, closeOps, closedReacted, fallback, closedBy,
                   log, opLog, rerr>>

\* The sink's close, mutated: the close op is issued whenever ready is not
\* pending, without looking at closed.
WritableCloseUnguarded(info) ==
    /\ wstate = "writable"
    /\ sendOp # "inflight"
    /\ wstate' = "errored"
    /\ IF ready.state = "pending"
       THEN /\ earlyClose' = TRUE
            /\ UNCHANGED <<closeOp, closeOps, opLog>>
       ELSE /\ closeOp' = "inflight"
            /\ closeOps' = closeOps + 1
            /\ opLog' = OpIssued(opLog)
            /\ UNCHANGED earlyClose
    /\ UNCHANGED <<ready, closed, closeSent, rid, create, handle, early, pump,
                   produced, taken, delivered, rstate, now, releaseCalls,
                   closedReacted, fallback, closedBy, log, sendOp, rerr>>

\* The sink's close, mutated: the close op is issued whenever closed is
\* pending, also while ready is.
WritableCloseWhileConnecting(info) ==
    /\ wstate = "writable"
    /\ sendOp # "inflight"
    /\ wstate' = "errored"
    /\ IF closed.state = "pending"
       THEN /\ closeOp' = "inflight"
            /\ closeOps' = closeOps + 1
            /\ opLog' = OpIssued(opLog)
       ELSE /\ opLog' = [opLog EXCEPT !.late = TRUE]
            /\ UNCHANGED <<closeOp, closeOps>>
    /\ UNCHANGED <<ready, closed, closeSent, earlyClose, rid, create, handle,
                   early, pump, produced, taken, delivered, rstate, now,
                   releaseCalls, closedReacted, fallback, closedBy, log, sendOp,
                   rerr>>

\* The WritableStream invokes its sink's close at most once, while it is
\* writable.  The handler branches on ready and closed, then calls this.close,
\* which is no method of the class: it throws, the catch block calls it
\* again and throws, and the stream is errored.  The close info plays no part
\* before that.
WritableClose(info) ==
    /\ wstate = "writable"
    /\ sendOp # "inflight"
    /\ wstate' = "errored"
    /\ IF ready.state = "pending"
       THEN /\ earlyClose' = TRUE
            /\ UNCHANGED <<closeOp, closeOps, opLog>>
       ELSE IF closed.state = "pending"
       THEN /\ closeOp' = "inflight"
            /\ closeOps' = closeOps + 1
            /\ opLog' = OpIssued(opLog)
            /\ UNCHANGED earlyClose
       ELSE /\ opLog' = [opLog EXCEPT !.late = TRUE]
            /\ UNCHANGED <<earlyClose, closeOp, closeOps>>
    /\ UNCHANGED <<ready, closed, closeSent, rid, create, handle, early, pump,
                   produced, taken, delivered, rstate, now, releaseCalls,
                   closedReacted, fallback, closedBy, log, sendOp, rerr>>

\* The sink's abort: this.close throws twice, nothing else runs.
WritableAbort(info) ==
    /\ wstate = "writable"
    /\ sendOp # "inflight"
    /\ wstate' = "errored"
    /\ UNCHANGED <<ready, closed, closeSent, earlyClose, rid, create, handle,
                   closeOp, early, pump, produced, taken, delivered, rstate, now,
                   releaseCalls, closeOps, closedReacted, fallback, closedBy, log,
                   sendOp, opLog, rerr>>

\* Fulfilment handler of op_wt_close: a 0 ms timer is set.
CloseOpFulfilled ==
    /\ closeOp = "inflight"
    /\ closeOp' = "timer"
    /\ UNCHANGED <<ready, closed, closeSent, earlyClose, rid, create, handle,
                   early, pump, produced, taken, delivered, rstate, wstate, now,
                   releaseCalls, closeOps, closedReacted, fallback, closedBy, log,
                   sendOp, opLog, rerr>>

\* The timer's callback: closeSent resolves with the current time.
CloseSentTimer ==
    /\ closeOp = "timer"
    /\ closeOp' = "sent"
    /\ closeSent' = Resolve(closeSent, now)
    /\ UNCHANGED <<ready, closed, earlyClose, rid, create, handle, early, pump,
                   produced, taken, delivered, rstate, wstate, now, releaseCalls,
                   closeOps, closedReacted, fallback, closedBy, log,
                   sendOp, opLog, rerr>>

\* Rejection handler of op_wt_close: this[_rid] && core.tryClose(this[_rid]),
\* then closed rejects with the op's error.
CloseOpRejected ==
    /\ closeOp = "inflight"
    /\ closeOp' = "failed"
    /\ IF rid # "undefined" THEN TryClose ELSE UNCHANGED <<handle, releaseCalls>>
    /\ SetClosed(Reject(closed, Val("Error", "close failed")), "closeFailed", 0)
    /\ UNCHANGED <<ready, closeSent, earlyClose, rid, create, early, pump,
                   produced, taken, delivered, rstate, wstate, now, closeOps,
                   closedReacted, fallback, log, sendOp, opLog, rerr>>

\* ------------------------------------------------------------ readable side
\* The reaction to this.closed being fulfilled, mutated: it issues the close
\* op itself instead of closing the writable stream.
OnClosedFulfilledClosesAgain ==
    /\ closed.state = "fulfilled"
    /\ ~closedReacted
    /\ closedReacted' = TRUE
    /\ rstate' = IF rstate = "readable" THEN "closed" ELSE rstate
    /\ wstate' = "errored"
    /\ closeOps' = closeOps + 1
    /\ opLog' = OpIssued(opLog)
    /\ UNCHANGED <<ready, closed, closeSent, earlyClose, rid, create, handle,
                   closeOp, early, pump, produced, taken, delivered, now,
                   releaseCalls, fallback, closedBy, log, sendOp, rerr>>

\* readable.start's reaction to this.closed being fulfilled (it has no
\* rejection handler): controller.close(), then writableStreamClose(writable),
\* which runs the sink's close on a writable stream; closed is settled by
\* then, so that run only reaches the throwing this.close.
OnClosedFulfilled ==
    /\ closed.state = "fulfilled"
    /\ ~closedReacted
    /\ closedReacted' = TRUE
    /\ rstate' = IF rstate = "readable" THEN "closed" ELSE rstate
    /\ wstate' = "errored"
    /\ UNCHANGED <<ready, closed, closeSent, earlyClose, rid, create, handle,
                   closeOp, early, pump, produced, taken, delivered, now,
                   releaseCalls, closeOps, fallback, closedBy, log,
                   sendOp, opLog, rerr>>

\* readable.start's reaction to closeSent: pull is called when closed is
\* still pending.
OnCloseSent ==
    /\ closeSent.state = "fulfilled"
    /\ pump["trigger"].pc = "unstarted"
    /\ pump' = [pump EXCEPT !["trigger"] =
                   IF closed.state = "pending" THEN PullEnter("trigger")
                                               ELSE PumpAt("done")]
    /\ opLog' = IF closed.state = "pending" THEN PullIssued(opLog) ELSE opLog
    /\ UNCHANGED <<ready, closed, closeSent, earlyClose, rid, create, handle,
                   closeOp, early, produced, taken, delivered, rstate, wstate,
                   now, releaseCalls, closeOps, closedReacted, fallback,
                   closedBy, log, sendOp, rerr>>

\* The ReadableStream calls its source's pull when a read is wanted and no
\* pull of its own is in flight.  A pull that throws errors the stream.
StreamPull ==
    /\ rstate = "readable"
    /\ pump["stream"].pc = "idle"
    /\ pump' = [pump EXCEPT !["stream"] = PullEnter("stream")]
    /\ rstate' = IF PullEnter("stream").pc = "failed" THEN "errored" ELSE rstate
    /\ rerr' = IF PullEnter("stream").pc = "failed" THEN BadResource ELSE rerr
    /\ opLog' = PullIssued(opLog)
    /\ UNCHANGED <<ready, closed, closeSent, earlyClose, rid, create, handle,
                   closeOp, early, produced, taken, delivered, wstate, now,
                   releaseCalls, closeOps, closedReacted, fallback,
                   closedBy, log, sendOp>>

\* The source's cancel: the stream is closed first, then this.close throws.
ReadableCancel(info) ==
    /\ rstate = "readable"
    /\ rstate' = "closed"
    /\ UNCHANGED <<ready, closed, closeSent, earlyClose, rid, create, handle,
                   closeOp, early, pump, produced, taken, delivered, wstate, now,
                   releaseCalls, closeOps, closedReacted, fallback, closedBy, log,
                   sendOp, opLog, rerr>>

\* ---------------------------------------------------------------- the pump
\* case "binary", mutated: the chunk is put in front of the queue.
PullBinaryInFront(p, value) ==
    /\ delivered' = <<value.v>> \o delivered
    /\ pump' = [pump EXCEPT ![p] = ClosePolicy(p, value, closed)]
    /\ UNCHANGED <<closed, closedBy, handle, releaseCalls, rstate, rerr>>

\* case "binary", mutated: the chunk is queued whatever the stream's state.
PullBinaryAnyState(p, value) ==
    /\ delivered' = Append(delivered, value.v)
    /\ pump' = [pump EXCEPT ![p] = ClosePolicy(p, value, closed)]
    /\ UNCHANGED <<closed, closedBy, handle, releaseCalls, rstate, rerr>>

\* case "binary": controller.enqueue(value), which throws on a stream that is
\* no longer readable; then the close-timeout policy's test.
PullBinary(p, value) ==
    /\ IF rstate = "readable"
       THEN /\ delivered' = Append(delivered, value.v)
            /\ pump' = [pump EXCEPT ![p] = ClosePolicy(p, value, closed)]
       ELSE /\ pump' = [pump EXCEPT ![p] = PumpAt("failed")]
            /\ UNCHANGED delivered
    /\ UNCHANGED <<closed, closedBy, handle, releaseCalls, rstate, rerr>>

\* case "closed" / "close", mutated: the handle is kept.
PullCloseKeepHandle(p, value, i) ==
    /\ SetClosed(Resolve(closed, value), "event", i)
    /\ pump' = [pump EXCEPT ![p] = ClosePolicy(p, value, Resolve(closed, value))]
    /\ UNCHANGED <<delivered, rstate, rerr, handle, releaseCalls>>

\* case "closed" / "close": closed resolves with the event's value, the
\* handle is released; closed is settled afterwards, so pull returns.
PullClose(p, value, i) ==
    /\ SetClosed(Resolve(closed, value), "event", i)
    /\ TryClose
    /\ pump' = [pump EXCEPT ![p] = ClosePolicy(p, value, Resolve(closed, value))]
    /\ UNCHANGED <<delivered, rstate, rerr>>

\* case "error", mutated: the error goes to the controller only, closed is
\* left alone.
PullErrorReadableOnly(p, value, i) ==
    /\ rstate' = IF rstate = "readable" THEN "errored" ELSE rstate
    /\ rerr' = IF rstate = "readable" THEN Val("Error", value.v) ELSE rerr
    /\ TryClose
    /\ pump' = [pump EXCEPT ![p] = ClosePolicy(p, value, closed)]
    /\ UNCHANGED <<closed, closedBy, delivered>>

\* case "error", mutated: closed rejects, the controller is left alone.
PullErrorClosedOnly(p, value, i) ==
    /\ SetClosed(Reject(closed, Val("Error", value.v)), "error", i)
    /\ TryClose
    /\ pump' = [pump EXCEPT ![p] =
                   ClosePolicy(p, value, Reject(closed, Val("Error", value.v)))]
    /\ UNCHANGED <<delivered, rstate, rerr>>

\* case "error": closed rejects with new Error(value), the controller is
\* errored with it, the handle is released.
PullError(p, value, i) ==
    /\ SetClosed(Reject(closed, Val("Error", value.v)), "error", i)
    /\ rstate' = IF rstate = "readable" THEN "errored" ELSE rstate
    /\ rerr' = IF rstate = "readable" THEN Val("Error", value.v) ELSE rerr
    /\ TryClose
    /\ pump' = [pump EXCEPT ![p] =
                   ClosePolicy(p, value, Reject(closed, Val("Error", value.v)))]
    /\ UNCHANGED delivered

\* pull from the awaited op_wt_next_event to its next suspension point or
\* return: the switch on kind, then the close-timeout policy's test.
NextEvent(p) ==
    /\ pump[p].pc = "waiting"
    /\ taken < Len(produced)
    /\ taken' = taken + 1
    /\ log' = IF produced[taken + 1].kind = "binary" /\ rstate # "readable"
              THEN [dropped |-> log.dropped \cup {taken + 1},
                    open |-> log.open \/ (ready.state = "fulfilled"
                                          /\ closed.state = "pending")]
              ELSE log
    /\ LET e == produced[taken + 1]
       IN CASE e.kind = "binary" -> PullBinary(p, e.value)
            [] e.kind \in {"closed", "close"} -> PullClose(p, e.value, taken + 1)
            [] e.kind = "error" -> PullError(p, e.value, taken + 1)
    /\ UNCHANGED <<ready, closeSent, earlyClose, rid, create, closeOp, early,
                   produced, wstate, now, closeOps, closedReacted, fallback,
                   sendOp, opLog>>

\* pull after `await this[_closeSent].promise`: within the timeout it calls
\* itself, beyond it closed resolves with the last event's value and the
\* handle is released.
TimeoutResume(p) ==
    /\ pump[p].pc = "await"
    /\ IF pump[p].elapsed <= CLOSE_RESPONSE_TIMEOUT
       THEN /\ pump' = [pump EXCEPT ![p] = PullEnter(p)]
            /\ opLog' = PullIssued(opLog)
            /\ UNCHANGED <<closed, closedBy, handle, releaseCalls, fallback>>
       ELSE /\ SetClosed(Resolve(closed, pump[p].value), "timeout", 0)
            /\ TryClose
            /\ fallback' = [fired |-> TRUE, elapsed |-> pump[p].elapsed,
                            value |-> pump[p].value]
            /\ pump' = [pump EXCEPT ![p] = Returned(p)]
            /\ UNCHANGED opLog
    /\ UNCHANGED <<ready, closeSent, earlyClose, rid, create, closeOp, early,
                   produced, taken, delivered, rstate, wstate, now, closeOps,
                   closedReacted, log, sendOp, rerr>>

\* ---------------------------------------------------------- the environment
\* A next-event request is outstanding.
Requested ==
    early = "draining" \/ \E p \in PumpIds : pump[p].pc = "waiting"

\* The transport produces its next event.  An event shows only through the
\* request that takes it, so one is produced when a request is outstanding
\* and the one before has been taken.  What a request on a released handle
\* yields is the transport's business: any event, or none.
Produce(kind) ==
    /\ handle # "none"
    /\ Requested
    /\ Len(produced) = taken
    /\ Len(produced) < MaxEvents
    /\ produced' = Append(produced, Event(kind, Len(produced) + 1))
    /\ UNCHANGED <<ready, closed, closeSent, earlyClose, rid, create, handle,
                   closeOp, early, pump, taken, delivered, rstate, wstate, now,
                   releaseCalls, closeOps, closedReacted, fallback, closedBy, log,
                   sendOp, opLog, rerr>>

\* Time passes.  The clock is read by the timer's callback and by the
\* close-timeout policy only, so it starts with the timer.
Tick(d) ==
    /\ closeOp \in {"timer", "sent"}
    /\ closed.state = "pending"
    /\ (now \div CLOSE_RESPONSE_TIMEOUT) + (now % CLOSE_RESPONSE_TIMEOUT) < MaxTicks
    /\ now' = now + d
    /\ UNCHANGED <<ready, closed, closeSent, earlyClose, rid, create, handle,
                   closeOp, early, pump, produced, taken, delivered, rstate,
                   wstate, releaseCalls, closeOps, closedReacted, fallback,
                   closedBy, log, sendOp, opLog, rerr>>

Next ==
    \/ CreateFulfilled
    \/ CreateRejected
    \/ EarlyCloseFulfilled
    \/ EarlyCloseRejected
    \/ DrainNextEvent
    \/ \E chunk \in Chunks : WritableWrite(chunk)
    \/ SendFulfilled
    \/ SendRejected
    \/ \E info \in CloseInfos : WritableClose(info)
    \/ \E info \in CloseInfos : WritableAbort(info)
    \/ CloseOpFulfilled
    \/ CloseSentTimer
    \/ CloseOpRejected
    \/ OnClosedFulfilled
    \/ OnCloseSent
    \/ StreamPull
    \/ \E info \in CloseInfos : ReadableCancel(info)
    \/ \E p \in PumpIds : NextEvent(p)
    \/ \E p \in PumpIds : TimeoutResume(p)
    \/ \E kind \in Kinds : Produce(kind)
    \/ \E d \in {1, CLOSE_RESPONSE_TIMEOUT} : Tick(d)

Spec == Init /\ [][Next]_vars

\* The handlers run whenever what they wait for is there: a reaction to a
\* settled promise, an expired timer, an awaited op whose event is there.
\* Whether the transport answers an op or produces an event is not the
\* program's to decide, and nothing is assumed of it; a send with an
\* undefined resource id never reaches the transport, and fails.
FairSpec ==
    /\ Spec
    /\ WF_vars(rid = "undefined" /\ SendRejected)
    /\ WF_vars(DrainNextEvent)
    /\ WF_vars(CloseSentTimer)
    /\ WF_vars(OnClosedFulfilled)
    /\ WF_vars(OnCloseSent)
    /\ \A p \in PumpIds : WF_vars(NextEvent(p))
    /\ \A p \in PumpIds : WF_vars(TimeoutResume(p))
    /\ WF_vars(\E d \in {1, CLOSE_RESPONSE_TIMEOUT} : Tick(d))

\* ------------------------------------------------------------------ claims
Settled(d) == d.state # "pending"

\* C1: ready and closed each settle at most once: once one of them is
\* fulfilled or rejected, no later step changes its state or its value.
C1_SettleOnce ==
    [][/\ Settled(ready) => ready' = ready
       /\ Settled(closed) => closed' = closed]_vars

\* A close event was handled after a failed close op had already rejected
\* closed: a second settle attempt on a settled future.
C1_Witness ==
    /\ closedBy.kind = "closeFailed"
    /\ closed.state = "rejected"
    /\ releaseCalls >= 2

\* C2: after an early close (a close requested while ready was pending)
\* neither ready nor closed is ever fulfilled; they are rejected together and
\* with the same error, also when the handshake succeeds.
C2_EarlyCloseRejects ==
    earlyClose =>
        /\ ready.state # "fulfilled"
        /\ closed.state # "fulfilled"
        /\ ready.state = "rejected" <=> closed.state = "rejected"
        /\ ready.state = "rejected" => ready.value = closed.value

\* An early close whose handshake succeeded, drained up to the close event.
C2_Witness ==
    /\ earlyClose
    /\ create = "fulfilled"
    /\ early = "done"
    /\ ready.state = "rejected"
    /\ closed.state = "rejected"

\* A close event of either variant has been produced for the drain loop.
CloseEventProduced ==
    \E i \in 1..Len(produced) : produced[i].kind \in {"close", "closed"}

\* C3: in the early-close drain, once the transport has produced a close
\* event of either variant (Close or Closed), ready and closed are eventually
\* both rejected.
C3_DrainEnds ==
    (early = "draining" /\ CloseEventProduced)
        ~> (ready.state = "rejected" /\ closed.state = "rejected")

\* C4: when the handshake fails, ready and closed are rejected with the same
\* error, whether or not earlyClose was set, and ready is never fulfilled.
C4_HandshakeFails ==
    create = "rejected" =>
        /\ ready.state = "rejected"
        /\ closed.state = "rejected"
        /\ ready.value = closed.value
        /\ rid = "undefined"

\* The handshake failed after an early close.
C4_Witness == create = "rejected" /\ earlyClose /\ ready.state = "rejected"

\* C5: a close request of the writable side whose close info is invalid
\* issues no close operation and leaves earlyClose, ready, closed and
\* closeSent unchanged.
C5_InvalidCloseNoEffect ==
    [][\A info \in CloseInfos :
          (~ValidCloseInfo(info) /\ WritableClose(info)) =>
              /\ closeOps' = closeOps
              /\ closeOp' = closeOp
              /\ earlyClose' = earlyClose
              /\ ready' = ready
              /\ closed' = closed
              /\ closeSent' = closeSent]_vars

\* C6: once a locally initiated close has been sent (closeSent fulfilled),
\* closed eventually settles, whatever the transport does afterwards.
C6_ClosedSettles == (closeSent.state = "fulfilled") ~> Settled(closed)

\* C7: when the close-timeout fallback fires, more than the timeout has
\* elapsed, and closed is fulfilled with a CloseInfo, never with the payload
\* of a Binary event.
C7_FallbackValue ==
    fallback.fired =>
        /\ fallback.elapsed > CLOSE_RESPONSE_TIMEOUT
        /\ closed.state = "fulfilled"
        /\ fallback.value.t = "CloseInfo"
        /\ closed.value.t = "CloseInfo"

\* The events pull has taken (the drain loop's are not pull's).
TakenByPull == IF early = "none" THEN 1..taken ELSE {}

\* Those of them that are Binary and whose enqueue did not throw.
Enqueued ==
    {i \in TakenByPull : produced[i].kind = "binary" /\ i \notin log.dropped}

\* The payloads of a set of events, in the transport's order.
PayloadsOf(S) ==
    [k \in 1..Cardinality(S) |->
        produced[CHOOSE i \in S : Cardinality({j \in S : j < i}) = k - 1].value.v]

\* C8 as amended: the readable side holds exactly the Binary payloads pull
\* took while the stream was readable, in the transport's order, none lost,
\* repeated or displaced; and when a Close/Closed event fulfils closed, every
\* such payload produced before that event had been enqueued already.
C8_OrderedDelivery ==
    /\ delivered = PayloadsOf(Enqueued)
    /\ closedBy.kind = "event" =>
           closedBy.n = Cardinality({i \in Enqueued : i < closedBy.i})

\* Two payloads delivered, then a close event fulfilled closed.
C8_Witness ==
    /\ Len(delivered) = 2
    /\ closedBy.kind = "event"
    /\ closedBy.n = 2
    /\ closed.state = "fulfilled"

\* C8 as stated: on an Open session (ready fulfilled, closed pending) every
\* Binary payload pull takes reaches the readable side, in order.
C8_OpenNoneLost ==
    /\ ~log.open
    /\ delivered = PayloadsOf(Enqueued)

\* C9: whenever the handshake produced a handle and closed has settled,
\* release has been called on the handle.
C9_NoLeak ==
    (handle # "none" /\ Settled(closed)) => releaseCalls >= 1

\* C10: release of the Transport Handle is performed at most once.
C10_ReleaseOnce == releaseCalls <= 1

\* The session is Open: ready fulfilled, closed pending.
Open == ready.state = "fulfilled" /\ closed.state = "pending"

\* C11: on an Open session on which no close was requested yet, an abort of
\* the writable side or a cancel of the readable side issues a close op to
\* the Transport Handle, as closing the writable side does.
C11_AbortCancelClose ==
    [][(/\ Open
        /\ closeOp = "none"
        /\ \/ \E info \in CloseInfos : WritableAbort(info)
           \/ \E info \in CloseInfos : ReadableCancel(info))
       => closeOps' = closeOps + 1]_vars

\* A close request: the sink's close or abort, the source's cancel, or the
\* close of the writable side by the reaction to closed.
CloseRequest ==
    \/ \E info \in CloseInfos : WritableClose(info)
    \/ \E info \in CloseInfos : WritableAbort(info)
    \/ \E info \in CloseInfos : ReadableCancel(info)
    \/ OnClosedFulfilled

\* C12: a close request made after closed has settled issues no op on the
\* handle, does not set earlyClose, and changes none of ready, closed and
\* closeSent.
C12_CloseAfterSettled ==
    [][(Settled(closed) /\ CloseRequest)
       => /\ closeOps' = closeOps
          /\ closeOp' = closeOp
          /\ opLog'.absent = opLog.absent
          /\ opLog'.released = opLog.released
          /\ earlyClose' = earlyClose
          /\ ready' = ready
          /\ closed' = closed
          /\ closeSent' = closeSent]_vars

\* The sink's close ran after closed had been rejected, on a session that
\* had been Open.
C12_Witness ==
    /\ opLog.late
    /\ closed.state = "rejected"
    /\ ready.state = "fulfilled"
    /\ wstate = "errored"

\* C13: once closed has settled, fulfilled or rejected, the readable side is
\* terminated (closed or errored) and the writable side is no longer
\* writable.
C13_CleanupAfterSettle ==
    Settled(closed) ~> (rstate # "readable" /\ wstate # "writable")

\* A failure was delivered by a rejection of ready or of closed.
Rejection == ready.state = "rejected" \/ closed.state = "rejected"

\* The session failed: the handshake, the early close, a close op, or an
\* Error event that found closed pending.
Failed ==
    \/ create = "rejected"
    \/ early \in {"failed", "done"}
    \/ closedBy.kind \in {"closeFailed", "error"}

\* C14: a failure is always delivered by a rejection of closed, with ready
\* rejected only together with closed and with the same error; the readable
\* side is errored only when closed has settled; and an Error event that
\* rejects closed reaches the readable side too, with the same error, unless
\* the application had cancelled it: two channels, not one.
C14_FailureChannels ==
    /\ Failed => closed.state = "rejected"
    /\ ready.state = "rejected" =>
           closed.state = "rejected" /\ closed.value = ready.value
    /\ rstate = "errored" => Settled(closed)
    /\ closedBy.kind = "error" =>
           \/ rstate = "errored" /\ rerr = closed.value
           \/ rstate = "closed"

\* An Error event rejected closed and errored the readable side, with one
\* error.
C14_Witness ==
    /\ closedBy.kind = "error"
    /\ closed.state = "rejected"
    /\ rstate = "errored"
    /\ rerr = closed.value

\* C14 as stated: a failed session has its failure delivered through exactly
\* one channel, a rejection of ready/closed or an error on the readable side.
C14_ExactlyOneChannel ==
    /\ Failed => (Rejection \/ rstate = "errored")
    /\ ~(Rejection /\ rstate = "errored")

\* C15: in every reachable state, closed settled implies ready settled.
C15_ClosedAfterReady == Settled(closed) => Settled(ready)

\* closed was settled on the close-failure path, on the pump's path or by the
\* timeout, each on a session whose ready is fulfilled.
C15_Witness ==
    /\ closedBy.kind \in {"closeFailed", "event", "error", "timeout"}
    /\ Settled(closed)
    /\ ready.state = "fulfilled"

\* C16: no send, close or next-event op is issued with an absent handle or
\* on a released one, and the handle field is absent before the handshake
\* resolves and after the handle was released.
C16_OwnedHandle ==
    /\ ~opLog.absent
    /\ ~opLog.released
    /\ create = "pending" => rid = "undefined"
    /\ handle = "released" => rid = "undefined"

\* The invocation p of pull takes an event of one of the kinds, with closed
\* pending.
TakesPending(p, kinds) ==
    /\ NextEvent(p)
    /\ closed.state = "pending"
    /\ produced[taken + 1].kind \in kinds

ErrorEventRejects(p) ==
    /\ closed' = [state |-> "rejected",
                  value |-> Val("Error", produced[taken + 1].value.v)]
    /\ handle' = "released"
    /\ releaseCalls' = releaseCalls + 1
    /\ pump'[p] = Returned(p)

\* C18: a pull that takes an Error event with closed pending rejects closed
\* with an error built from the event's message, releases the handle and
\* returns without requesting another event; a readable side that is still
\* readable becomes errored with the same error, one that the application
\* had cancelled stays closed; closed is never fulfilled afterwards.
C18_ErrorEventRejects ==
    [][/\ \A p \in PumpIds :
              TakesPending(p, {"error"})
              => /\ ErrorEventRejects(p)
                 /\ IF rstate = "readable"
                    THEN rstate' = "errored" /\ rerr' = closed'.value
                    ELSE rstate' = rstate /\ rerr' = rerr
       /\ closedBy'.kind = "error" => closed'.state = "rejected"]_vars

\* An Error event rejected closed, errored the readable side with the error
\* built from its message, and the handle was released.
C18_Witness ==
    /\ closedBy.kind = "error"
    /\ closed = [state |-> "rejected",
                 value |-> Val("Error", produced[closedBy.i].value.v)]
    /\ rstate = "errored"
    /\ rerr = closed.value
    /\ handle = "released"

\* C18 as stated: the readable side is put into the errored state with the
\* same error, whatever state it was in.
C18_ErrorEventErrorsReadable ==
    [][\A p \in PumpIds :
           TakesPending(p, {"error"})
           => /\ ErrorEventRejects(p)
              /\ rstate' = "errored"
              /\ rerr' = closed'.value]_vars

\* C19: once a close op has failed, on the Open path or on the early-close
\* path, the handle is released, closed is rejected, closeSent is pending
\* and no second close op was issued.
C19_CloseFailureTerminal ==
    (closeOp = "failed" \/ early = "failed")
    => /\ handle = "released"
       /\ closed.state = "rejected"
       /\ closeSent.state = "pending"
       /\ closeOps = 1

\* C20: once a send op has failed, the writable side is errored (the writer
\* sees a write failure) and a handle the handshake produced is released.
C20_SendFailureReleases ==
    sendOp = "failed" => (wstate = "errored" /\ handle # "live")

\* The next-event requests outstanding on this[_rid]: one per invocation of
\* pull that awaits op_wt_next_event.
Outstanding == {p \in PumpIds : pump[p].pc = "waiting"}

\* C21: the session never has two next-event requests outstanding at once.
C21_OnePump == Cardinality(Outstanding) <= 1

\* C22: on a session whose earlyClose flag was set no Binary payload is ever
\* delivered to the readable side, and the close is not lost: once the
\* handshake has resolved the early-close branch was taken, the handle was
\* not handed to the session and ready was not fulfilled.
C22_EarlyCloseNoDelivery ==
    earlyClose
    => /\ delivered = <<>>
       /\ create = "fulfilled" =>
              /\ early # "none"
              /\ rid = "undefined"
              /\ ready.state # "fulfilled"

\* The drain loop of an early close took a Binary event, and nothing was
\* delivered.
C22_Witness ==
    /\ earlyClose
    /\ early \in {"draining", "done"}
    /\ taken >= 1
    /\ produced[1].kind = "binary"
    /\ delivered = <<>>

\* C23: across all close requests on one session, at most one close op is
\* issued to the transport.
C23_OneCloseOp == closeOps <= 1

\* The writable side was closed on an Open session, the close op was sent,
\* closed was fulfilled, and the reaction closed the writable side again.
C23_Witness ==
    /\ closeOps = 1
    /\ closeOp = "sent"
    /\ closed.state = "fulfilled"
    /\ closedReacted

\* C24: no Binary payload is enqueued to the readable side once it is closed
\* or errored: a step taken with the stream no longer readable leaves the
\* delivered payloads as they are, whichever pull takes the event.
C24_NoEnqueueAfterClose ==
    [][rstate # "readable" => delivered' = delivered]_vars

\* closed was settled, the reaction closed the readable controller, and a
\* pull that was still waiting took a Binary event afterwards: it is among
\* the dropped ones and not among the delivered ones.
C24_Witness ==
    /\ Settled(closed)
    /\ closedReacted
    /\ rstate = "closed"
    /\ \E i \in log.dropped : i > closedBy.i /\ closedBy.kind = "event"
    /\ Len(delivered) < Cardinality({i \in 1..taken : produced[i].kind = "binary"})

====
